---------------------------- MODULE Spec2Model ----------------------------
(***************************************************************************)
(* A model of the fake-news detector API (src/app.py): the POST /analyze   *)
(* handler analyze_authenticity, the validator validate_article_text and   *)
(* the extractor extract_json_from_response.                               *)
(*                                                                         *)
(* Texts the code parses (the model's answer) are sequences of one-        *)
(* character strings, so that json.loads, re.search and str.strip are      *)
(* computed character by character.  Article texts, of which the code      *)
(* reads only the length and the whitespace at both ends, are sequences of *)
(* runs, which makes texts of 50,000 characters checkable.                 *)
(***************************************************************************)
EXTENDS Integers, Sequences, FiniteSets, TLC

(***************************************************************************)
(* Characters.  The alphabet of the modelled texts holds no backslash and  *)
(* no control character other than the newline, so that a JSON string is   *)
(* the characters between two quotes.                                      *)
(***************************************************************************)
QUOTE == "\""

NL == "\n"

\* str.strip() removes these; json.loads skips them between tokens.
IsSpace(c) == c \in {" ", NL}

DigitChars == <<"0", "1", "2", "3", "4", "5", "6", "7", "8", "9">>

IsDigit(c) == \E d \in 1..10 : DigitChars[d] = c

DigitVal(c) == (CHOOSE d \in 1..10 : DigitChars[d] = c) - 1

\* s[i], or the empty string past the end of s (no character equals it)
At(s, i) == IF i >= 1 /\ i <= Len(s) THEN s[i] ELSE ""

\* s[i:i+len(w)] == w
Matches(s, i, w) == /\ i + Len(w) - 1 <= Len(s)
                    /\ \A k \in 1..Len(w) : s[i + k - 1] = w[k]

RECURSIVE LStripFrom(_, _)
LStripFrom(s, i) == IF i <= Len(s) /\ IsSpace(s[i]) THEN LStripFrom(s, i + 1) ELSE i

RECURSIVE RStripTo(_, _)
RStripTo(s, j) == IF j >= 1 /\ IsSpace(s[j]) THEN RStripTo(s, j - 1) ELSE j

\* str.strip() of a character text
Strip(s) == LET i == LStripFrom(s, 1)
                j == RStripTo(s, Len(s))
            IN  IF i > j THEN <<>> ELSE SubSeq(s, i, j)

(***************************************************************************)
(* JSON values, as json.loads builds them: None, bool, int, float, str,    *)
(* list and dict.  A float keeps its decimal digits and the place of its   *)
(* point; nan and the infinities are values of their own.                  *)
(***************************************************************************)
JNull == [t |-> "null"]

JBool(b) == [t |-> "bool", b |-> b]

JInt(i) == [t |-> "int", i |-> i]

JFloat(neg, digits, point) == [t |-> "float", neg |-> neg, digits |-> digits, point |-> point]

JNonFinite(k) == [t |-> "nonfinite", k |-> k]

JStr(s) == [t |-> "str", s |-> s]

JArr(a) == [t |-> "arr", a |-> a]

JObj(o) == [t |-> "obj", o |-> o]

IsDict(v) == v.t = "obj"

IsStr(v) == v.t = "str"

(***************************************************************************)
(* json.loads: the scanner of the json module, on the alphabet above.      *)
(* A parse step answers [ok, v, end]: the value and the place after it.    *)
(***************************************************************************)
ParseFail == [ok |-> FALSE, v |-> JNull, end |-> 0]

ParseOk(v, end) == [ok |-> TRUE, v |-> v, end |-> end]

RECURSIVE SkipWs(_, _)
SkipWs(s, i) == IF i <= Len(s) /\ IsSpace(s[i]) THEN SkipWs(s, i + 1) ELSE i

RECURSIVE DigitsEnd(_, _)
DigitsEnd(s, i) == IF i <= Len(s) /\ IsDigit(s[i]) THEN DigitsEnd(s, i + 1) ELSE i

RECURSIVE DigitsValue(_, _, _, _)
DigitsValue(s, i, j, acc) ==
    IF i >= j THEN acc ELSE DigitsValue(s, i + 1, j, 10 * acc + DigitVal(s[i]))

DigitList(s, i, j) == [k \in 1..(j - i) |-> DigitVal(s[i + k - 1])]

\* py_scanstring: i is the place after the opening quote
RECURSIVE StringEnd(_, _)
StringEnd(s, i) ==
    IF i > Len(s) THEN 0
    ELSE IF s[i] = QUOTE THEN i
    ELSE IF s[i] = NL THEN 0
    ELSE StringEnd(s, i + 1)

ScanString(s, i) ==
    LET e == StringEnd(s, i)
    IN  IF e = 0 THEN ParseFail ELSE ParseOk(JStr(SubSeq(s, i, e - 1)), e + 1)

\* NUMBER_RE = (-?(?:0|[1-9]\d*))(\.\d+)?([eE][-+]?\d+)?
ScanNumber(s, i) ==
    LET neg == At(s, i) = "-"
        i0 == IF neg THEN i + 1 ELSE i
        intEnd == IF At(s, i0) = "0" THEN i0 + 1 ELSE DigitsEnd(s, i0)
        hasFrac == At(s, intEnd) = "." /\ IsDigit(At(s, intEnd + 1))
        fracEnd == IF hasFrac THEN DigitsEnd(s, intEnd + 1) ELSE intEnd
        expSigned == At(s, fracEnd + 1) \in {"-", "+"}
        e0 == IF expSigned THEN fracEnd + 2 ELSE fracEnd + 1
        hasExp == At(s, fracEnd) \in {"e", "E"} /\ IsDigit(At(s, e0))
        expEnd == IF hasExp THEN DigitsEnd(s, e0) ELSE fracEnd
        expAbs == IF hasExp THEN DigitsValue(s, e0, expEnd, 0) ELSE 0
        exp == IF At(s, fracEnd + 1) = "-" THEN 0 - expAbs ELSE expAbs
        whole == DigitsValue(s, i0, intEnd, 0)
        digits == DigitList(s, i0, intEnd)
                      \o (IF hasFrac THEN DigitList(s, intEnd + 1, fracEnd) ELSE <<>>)
    IN  IF ~IsDigit(At(s, i0)) THEN ParseFail
        ELSE IF hasFrac \/ hasExp
             THEN ParseOk(JFloat(neg, digits, (intEnd - i0) + exp), expEnd)
             ELSE ParseOk(JInt(IF neg THEN 0 - whole ELSE whole), intEnd)

W_null == <<"n", "u", "l", "l">>

W_true == <<"t", "r", "u", "e">>

W_false == <<"f", "a", "l", "s", "e">>

W_NaN == <<"N", "a", "N">>

W_Infinity == <<"I", "n", "f", "i", "n", "i", "t", "y">>

W_NegInfinity == <<"-">> \o W_Infinity

RECURSIVE ScanOnce(_, _)
RECURSIVE ParseMembers(_, _, _)
RECURSIVE ParseElements(_, _, _)

\* JSONObject: i is the place after the opening brace
ParseObject(s, i) ==
    LET j == SkipWs(s, i)
    IN  IF At(s, j) = "}" THEN ParseOk(JObj(<<>>), j + 1)
        ELSE IF At(s, j) # QUOTE THEN ParseFail
        ELSE ParseMembers(s, j + 1, <<>>)

\* the members' loop of JSONObject: i is the place after a key's opening quote;
\* dict(pairs) keeps the last value of a repeated key
ParseMembers(s, i, acc) ==
    LET key == ScanString(s, i)
        colon == SkipWs(s, key.end)
        val == ScanOnce(s, SkipWs(s, colon + 1))
        pairs == (key.v.s :> val.v) @@ acc
        nxt == SkipWs(s, val.end)
        q == SkipWs(s, nxt + 1)
    IN  IF ~key.ok THEN ParseFail
        ELSE IF At(s, colon) # ":" THEN ParseFail
        ELSE IF ~val.ok THEN ParseFail
        ELSE IF At(s, nxt) = "}" THEN ParseOk(JObj(pairs), nxt + 1)
        ELSE IF At(s, nxt) # "," THEN ParseFail
        ELSE IF At(s, q) # QUOTE THEN ParseFail
        ELSE ParseMembers(s, q + 1, pairs)

\* JSONArray: i is the place after the opening bracket
ParseArray(s, i) ==
    LET j == SkipWs(s, i)
    IN  IF At(s, j) = "]" THEN ParseOk(JArr(<<>>), j + 1)
        ELSE ParseElements(s, j, <<>>)

ParseElements(s, i, acc) ==
    LET val == ScanOnce(s, i)
        nxt == SkipWs(s, val.end)
        items == Append(acc, val.v)
    IN  IF ~val.ok THEN ParseFail
        ELSE IF At(s, nxt) = "]" THEN ParseOk(JArr(items), nxt + 1)
        ELSE IF At(s, nxt) # "," THEN ParseFail
        ELSE ParseElements(s, SkipWs(s, nxt + 1), items)

\* scan_once(string, idx)
ScanOnce(s, i) ==
    LET c == At(s, i)
        num == ScanNumber(s, i)
    IN  IF i > Len(s) THEN ParseFail
        ELSE IF c = QUOTE THEN ScanString(s, i + 1)
        ELSE IF c = "{" THEN ParseObject(s, i + 1)
        ELSE IF c = "[" THEN ParseArray(s, i + 1)
        ELSE IF c = "n" /\ Matches(s, i, W_null) THEN ParseOk(JNull, i + 4)
        ELSE IF c = "t" /\ Matches(s, i, W_true) THEN ParseOk(JBool(TRUE), i + 4)
        ELSE IF c = "f" /\ Matches(s, i, W_false) THEN ParseOk(JBool(FALSE), i + 5)
        ELSE IF num.ok THEN num
        ELSE IF c = "N" /\ Matches(s, i, W_NaN) THEN ParseOk(JNonFinite("NaN"), i + 3)
        ELSE IF c = "I" /\ Matches(s, i, W_Infinity)
             THEN ParseOk(JNonFinite("Infinity"), i + 8)
        ELSE IF c = "-" /\ Matches(s, i, W_NegInfinity)
             THEN ParseOk(JNonFinite("-Infinity"), i + 9)
        ELSE ParseFail

\* json.loads(s): one value, whitespace around it, nothing after it;
\* ok = FALSE is json.JSONDecodeError
JsonLoads(s) ==
    LET r == ScanOnce(s, SkipWs(s, 1))
    IN  IF r.ok /\ SkipWs(s, r.end) = Len(s) + 1 THEN r ELSE ParseFail

(***************************************************************************)
(* The field names of the analysis record and the fixed texts of           *)
(* src/app.py, as character texts.                                         *)
(***************************************************************************)
K_credibility_score ==
    <<"c", "r", "e", "d", "i", "b", "i", "l", "i", "t", "y", "_", "s", "c",
      "o", "r", "e">>

K_verdict ==
    <<"v", "e", "r", "d", "i", "c", "t">>

K_confidence ==
    <<"c", "o", "n", "f", "i", "d", "e", "n", "c", "e">>

K_analysis ==
    <<"a", "n", "a", "l", "y", "s", "i", "s">>

K_red_flags ==
    <<"r", "e", "d", "_", "f", "l", "a", "g", "s">>

K_credibility_factors ==
    <<"c", "r", "e", "d", "i", "b", "i", "l", "i", "t", "y", "_", "f", "a",
      "c", "t", "o", "r", "s">>

K_verification_tips ==
    <<"v", "e", "r", "i", "f", "i", "c", "a", "t", "i", "o", "n", "_", "t",
      "i", "p", "s">>

S_UNKNOWN ==
    <<"U", "N", "K", "N", "O", "W", "N">>

S_UnableToAnalyze ==
    <<"U", "n", "a", "b", "l", "e", " ", "t", "o", " ", "a", "n", "a", "l",
      "y", "z", "e", " ", "t", "h", "e", " ", "a", "r", "t", "i", "c", "l",
      "e", ".">>

S_ParsingFailed ==
    <<"R", "e", "s", "p", "o", "n", "s", "e", " ", "p", "a", "r", "s", "i",
      "n", "g", " ", "f", "a", "i", "l", "e", "d">>

S_UnableToAssess ==
    <<"U", "n", "a", "b", "l", "e", " ", "t", "o", " ", "a", "s", "s", "e",
      "s", "s">>

S_TryDifferent ==
    <<"P", "l", "e", "a", "s", "e", " ", "t", "r", "y", " ", "a", "g", "a",
      "i", "n", " ", "w", "i", "t", "h", " ", "a", " ", "d", "i", "f", "f",
      "e", "r", "e", "n", "t", " ", "a", "r", "t", "i", "c", "l", "e">>

S_AnalysisCompleted ==
    <<"A", "n", "a", "l", "y", "s", "i", "s", " ", "c", "o", "m", "p", "l",
      "e", "t", "e", "d">>

S_NoRedFlags ==
    <<"N", "o", " ", "m", "a", "j", "o", "r", " ", "r", "e", "d", " ", "f",
      "l", "a", "g", "s", " ", "i", "d", "e", "n", "t", "i", "f", "i", "e",
      "d">>

S_StandardMarkers ==
    <<"S", "t", "a", "n", "d", "a", "r", "d", " ", "c", "r", "e", "d", "i",
      "b", "i", "l", "i", "t", "y", " ", "m", "a", "r", "k", "e", "r", "s",
      " ", "p", "r", "e", "s", "e", "n", "t">>

S_CrossCheck ==
    <<"C", "r", "o", "s", "s", "-", "c", "h", "e", "c", "k", " ", "w", "i",
      "t", "h", " ", "m", "u", "l", "t", "i", "p", "l", "e", " ", "r", "e",
      "l", "i", "a", "b", "l", "e", " ", "s", "o", "u", "r", "c", "e", "s">>

(***************************************************************************)
(* extract_json_from_response (src/app.py:66-87)                           *)
(***************************************************************************)
RECURSIVE FirstIndexFrom(_, _, _)
FirstIndexFrom(s, c, i) ==
    IF i > Len(s) THEN 0 ELSE IF s[i] = c THEN i ELSE FirstIndexFrom(s, c, i + 1)

RECURSIVE LastIndexTo(_, _, _)
LastIndexTo(s, c, j) ==
    IF j < 1 THEN 0 ELSE IF s[j] = c THEN j ELSE LastIndexTo(s, c, j - 1)

\* BraceSearch with the pattern made lazy, r'\{.*?\}': the span ends at the first
\* "}" after the first "{"
BraceSearch_Lazy(s) ==
    LET open == FirstIndexFrom(s, "{", 1)
        close == IF open = 0 THEN 0 ELSE FirstIndexFrom(s, "}", open + 1)
    IN  IF open # 0 /\ close > open
        THEN [found |-> TRUE, group |-> SubSeq(s, open, close)]
        ELSE [found |-> FALSE, group |-> <<>>]

\* re.search(r'\{.*\}', s, re.DOTALL): the leftmost "{" that has a "}" after it,
\* and greedily the last "}" of s; the dot matches the newline too
BraceSearch(s) ==
    LET open == FirstIndexFrom(s, "{", 1)
        close == LastIndexTo(s, "}", Len(s))
    IN  IF open # 0 /\ close > open
        THEN [found |-> TRUE, group |-> SubSeq(s, open, close)]
        ELSE [found |-> FALSE, group |-> <<>>]

\* the record of lines 79-87
FallbackRecord(response_text) ==
    JObj((K_credibility_score :> JInt(0))
         @@ (K_verdict :> JStr(S_UNKNOWN))
         @@ (K_confidence :> JInt(50))
         @@ (K_analysis :> JStr(IF Strip(response_text) # <<>>
                                THEN Strip(response_text)
                                ELSE S_UnableToAnalyze))
         @@ (K_red_flags :> JStr(S_ParsingFailed))
         @@ (K_credibility_factors :> JStr(S_UnableToAssess))
         @@ (K_verification_tips :> JStr(S_TryDifferent)))

\* extract_json_from_response with the score clamped to 0..10 already here
extract_json_from_response_Clamping(response_text) ==
    LET strict == JsonLoads(Strip(response_text))
        json_match == BraceSearch(response_text)
        inner == JsonLoads(json_match.group)
        v == IF strict.ok THEN strict.v
             ELSE IF json_match.found /\ inner.ok THEN inner.v
             ELSE FallbackRecord(response_text)
        score == v.o[K_credibility_score].i
    IN  IF IsDict(v) /\ K_credibility_score \in DOMAIN v.o
           /\ v.o[K_credibility_score].t = "int"
        THEN JObj((K_credibility_score :>
                      JInt(IF score < 0 THEN 0 ELSE IF score > 10 THEN 10 ELSE score))
                  @@ v.o)
        ELSE v

extract_json_from_response(response_text) ==
    LET strict == JsonLoads(Strip(response_text))
        json_match == BraceSearch(response_text)
        inner == JsonLoads(json_match.group)
    IN  IF strict.ok THEN strict.v
        ELSE IF json_match.found /\ inner.ok THEN inner.v
        ELSE FallbackRecord(response_text)

(***************************************************************************)
(* The normalisation of lines 155-163: int(), dict.get, min and max.       *)
(***************************************************************************)
IntFail == [ok |-> FALSE, i |-> 0]

IntOk(i) == [ok |-> TRUE, i |-> i]

RECURSIVE Pow10(_)
Pow10(n) == IF n <= 0 THEN 1 ELSE 10 * Pow10(n - 1)

RECURSIVE DigitListValue(_, _, _)
DigitListValue(d, n, acc) ==
    IF n > Len(d) THEN acc ELSE DigitListValue(d, n + 1, 10 * acc + d[n])

\* int(float): the digits before the point, the rest cut off
FloatTrunc(v) ==
    LET n == Len(v.digits)
        kept == IF v.point <= 0 THEN <<>>
                ELSE IF v.point >= n THEN v.digits
                ELSE SubSeq(v.digits, 1, v.point)
        mag == DigitListValue(kept, 1, 0) * Pow10(v.point - n)
    IN  IF v.neg THEN 0 - mag ELSE mag

RECURSIVE StrDigitsValue(_, _, _)
StrDigitsValue(s, i, acc) ==
    IF i > Len(s) THEN acc
    ELSE IF s[i] = "_" THEN StrDigitsValue(s, i + 1, acc)
    ELSE StrDigitsValue(s, i + 1, 10 * acc + DigitVal(s[i]))

\* int(str): whitespace around, a sign, decimal digits with single underscores
\* between them
IntOfStr(s) ==
    LET t == Strip(s)
        signed == At(t, 1) \in {"-", "+"}
        body == IF signed THEN SubSeq(t, 2, Len(t)) ELSE t
        n == Len(body)
        wellFormed == /\ n >= 1
                      /\ \A k \in 1..n : IsDigit(body[k]) \/ body[k] = "_"
                      /\ IsDigit(body[1])
                      /\ IsDigit(body[n])
                      /\ \A k \in 1..(n - 1) : ~(body[k] = "_" /\ body[k + 1] = "_")
        mag == StrDigitsValue(body, 1, 0)
    IN  IF ~wellFormed THEN IntFail
        ELSE IntOk(IF At(t, 1) = "-" THEN 0 - mag ELSE mag)

\* int(v): ok = FALSE is the TypeError, ValueError or OverflowError int() raises
PyInt(v) ==
    CASE v.t = "int" -> IntOk(v.i)
      [] v.t = "bool" -> IntOk(IF v.b THEN 1 ELSE 0)
      [] v.t = "float" -> IntOk(FloatTrunc(v))
      [] v.t = "str" -> IntOfStr(v.s)
      [] OTHER -> IntFail

Min(a, b) == IF a <= b THEN a ELSE b

Max(a, b) == IF a >= b THEN a ELSE b

\* dict.get(key, default)
DictGet(d, key, default) == IF key \in DOMAIN d.o THEN d.o[key] ELSE default

ScoreLow == 0

ScoreHigh == 10

ConfidenceLow == 0

ConfidenceHigh == 100

DefaultScore == 0

DefaultConfidence == 50

\* ClampScore without the upper limit
ClampScore_NoUpper(i) == Max(ScoreLow, i)

ClampScore(i) == Min(ScoreHigh, Max(ScoreLow, i))

ClampConfidence(i) == Min(ConfidenceHigh, Max(ConfidenceLow, i))

NoResult == [credibility_score |-> 0, verdict |-> JNull, confidence |-> 0,
             analysis |-> JNull, red_flags |-> JNull,
             credibility_factors |-> JNull, verification_tips |-> JNull]

\* lines 155-163: raised = TRUE when analysis_result has no .get (it is no dict)
\* or int() raises
NormalizeResult(analysis_result) ==
    LET score == PyInt(DictGet(analysis_result, K_credibility_score, JInt(DefaultScore)))
        conf == PyInt(DictGet(analysis_result, K_confidence, JInt(DefaultConfidence)))
    IN  IF ~IsDict(analysis_result) THEN [raised |-> TRUE, result |-> NoResult]
        ELSE IF ~score.ok \/ ~conf.ok THEN [raised |-> TRUE, result |-> NoResult]
        ELSE [raised |-> FALSE,
              result |-> [credibility_score |-> ClampScore(score.i),
                          verdict |-> DictGet(analysis_result, K_verdict, JStr(S_UNKNOWN)),
                          confidence |-> ClampConfidence(conf.i),
                          analysis |-> DictGet(analysis_result, K_analysis,
                                               JStr(S_AnalysisCompleted)),
                          red_flags |-> DictGet(analysis_result, K_red_flags,
                                                JStr(S_NoRedFlags)),
                          credibility_factors |-> DictGet(analysis_result,
                                                          K_credibility_factors,
                                                          JStr(S_StandardMarkers)),
                          verification_tips |-> DictGet(analysis_result,
                                                        K_verification_tips,
                                                        JStr(S_CrossCheck))]]

(***************************************************************************)
(* Article texts: a text is a sequence of runs, each a positive number of  *)
(* whitespace characters or of other characters, the kinds alternating.    *)
(***************************************************************************)
Run(ws, n) == [ws |-> ws, n |-> n]

RECURSIVE TextLen(_)
TextLen(text) == IF text = <<>> THEN 0 ELSE Head(text).n + TextLen(Tail(text))

RECURSIVE LStripRuns(_)
LStripRuns(text) ==
    IF text # <<>> /\ Head(text).ws THEN LStripRuns(Tail(text)) ELSE text

RECURSIVE RStripRuns(_)
RStripRuns(text) ==
    IF text # <<>> /\ text[Len(text)].ws
    THEN RStripRuns(SubSeq(text, 1, Len(text) - 1))
    ELSE text

\* str.strip() of an article text
StripRuns(text) == RStripRuns(LStripRuns(text))

(***************************************************************************)
(* validate_article_text (src/app.py:90-101)                               *)
(***************************************************************************)
MinLen == 10

MaxLen == 50000

MsgEmpty == "Article text cannot be empty"

MsgTooShort == "Article text is too short for meaningful analysis"

MsgTooLong == "Article text is too long (maximum 50,000 characters)"

\* validate_article_text with <= for < at the lower limit
validate_article_text_OffByOne(text) ==
    IF TextLen(text) = 0 \/ TextLen(StripRuns(text)) = 0
    THEN [ok |-> FALSE, message |-> MsgEmpty]
    ELSE IF TextLen(StripRuns(text)) <= MinLen
    THEN [ok |-> FALSE, message |-> MsgTooShort]
    ELSE IF TextLen(StripRuns(text)) > MaxLen
    THEN [ok |-> FALSE, message |-> MsgTooLong]
    ELSE [ok |-> TRUE, message |-> ""]

validate_article_text(text) ==
    IF TextLen(text) = 0 \/ TextLen(StripRuns(text)) = 0
    THEN [ok |-> FALSE, message |-> MsgEmpty]
    ELSE IF TextLen(StripRuns(text)) < MinLen
    THEN [ok |-> FALSE, message |-> MsgTooShort]
    ELSE IF TextLen(StripRuns(text)) > MaxLen
    THEN [ok |-> FALSE, message |-> MsgTooLong]
    ELSE [ok |-> TRUE, message |-> ""]

(***************************************************************************)
(* create_fake_news_analysis_prompt (src/app.py:34-63): the fixed template *)
(* with the article text put in once.                                      *)
(***************************************************************************)
create_fake_news_analysis_prompt(article_text) ==
    [template |-> "fake_news_analysis", article_text |-> article_text]

(***************************************************************************)
(* Requests.  A request is its content type and what request.get_json()    *)
(* makes of its body: a JSON value, whose strings are article texts, or    *)
(* no JSON at all (get_json raises BadRequest).                            *)
(***************************************************************************)
BInvalid == [t |-> "invalid"]

RStr(runs) == [t |-> "str", runs |-> runs]

K_text == <<"t", "e", "x", "t">>

K_title == <<"t", "i", "t", "l", "e">>

\* bool(data)
Truthy(v) ==
    CASE v.t = "null" -> FALSE
      [] v.t = "bool" -> v.b
      [] v.t = "int" -> v.i # 0
      [] v.t = "str" -> v.runs # <<>>
      [] v.t = "arr" -> v.a # <<>>
      [] v.t = "obj" -> DOMAIN v.o # {}
      [] OTHER -> TRUE

\* the lengths of a run: around both limits of the validator
RunLens == {1, MinLen - 2, MinLen - 1, MinLen, MaxLen - 2, MaxLen, MaxLen + 1}

ReqRunLens == {MinLen - 1, MinLen, MaxLen + 1}

IsAlternating(text) == \A i \in 1..(Len(text) - 1) : text[i].ws # text[i + 1].ws

\* every text of at most n runs, the lengths of the runs taken from lens
RECURSIVE ArticleTexts(_, _)
ArticleTexts(lens, n) ==
    IF n = 0 THEN {<<>>}
    ELSE LET shorter == ArticleTexts(lens, n - 1)
             longer == {Append(t, Run(ws, k)) :
                           t \in {u \in shorter : Len(u) = n - 1},
                           ws \in BOOLEAN, k \in lens}
         IN  shorter \cup {t \in longer : IsAlternating(t)}

MaxRuns == 3

MaxReqRuns == 2

ReqTexts == ArticleTexts(ReqRunLens, MaxReqRuns)

Bodies ==
    {BInvalid, JNull, JBool(FALSE), JBool(TRUE), JInt(0), JInt(5),
     RStr(<<>>), RStr(<<Run(FALSE, MinLen)>>), JArr(<<>>), JArr(<<JInt(1)>>),
     JObj(<<>>), JObj(K_title :> RStr(<<Run(FALSE, MinLen)>>)),
     JObj(K_text :> JInt(123)), JObj(K_text :> JNull)}
    \cup {JObj(K_text :> RStr(t)) : t \in ReqTexts}

Requests ==
    {[is_json |-> TRUE, body |-> b] : b \in Bodies}
    \cup {[is_json |-> FALSE, body |-> b] :
             b \in {BInvalid, JObj(K_text :> RStr(<<Run(FALSE, MinLen)>>))}}

(***************************************************************************)
(* The answers of the model (response.text, src/app.py:139-141): JSON      *)
(* objects written out in three layouts, alone or with text around them,   *)
(* prose, and every text of a few characters.                              *)
(***************************************************************************)
S_FAKE == <<"F", "A", "K", "E">>

S_CREDIBLE == <<"C", "R", "E", "D", "I", "B", "L", "E">>

S_abc == <<"a", "b", "c">>

S_7 == <<"7">>

S_x == <<"x">>

S_braces == <<"a", " ", "{", "b", "}", " ", "c">>

T_HereYouGo == <<"H", "e", "r", "e", " ", "y", "o", "u", " ", "g", "o", ":", " ">>

T_thanks == <<" ", "t", "h", "a", "n", "k", "s">>

T_prose ==
    <<"T", "h", "e", " ", "a", "r", "t", "i", "c", "l", "e", " ", "l", "o", "o",
      "k", "s", " ", "f", "i", "n", "e", ".">>

T_proseBrace == <<"s", "e", "e", " ", "{", "n", "o", "t", "e">>

T_trailingBrace == <<" ", "e", "n", "d", "}">>

T_leadingBrace == <<"{", "x", "}", " ">>

Absent == [t |-> "absent"]

RECURSIVE NatChars(_)
NatChars(n) ==
    IF n < 10 THEN <<DigitChars[n + 1]>>
    ELSE Append(NatChars(n \div 10), DigitChars[(n % 10) + 1])

IntChars(i) == IF i < 0 THEN <<"-">> \o NatChars(0 - i) ELSE NatChars(i)

\* a JSON value written out, as json.dumps writes it
DumpValue(v) ==
    CASE v.t = "int" -> IntChars(v.i)
      [] v.t = "str" -> <<QUOTE>> \o v.s \o <<QUOTE>>
      [] v.t = "null" -> W_null
      [] v.t = "bool" -> IF v.b THEN W_true ELSE W_false
      [] v.t = "float" ->
            (IF v.neg THEN <<"-">> ELSE <<>>)
            \o [k \in 1..v.point |-> DigitChars[v.digits[k] + 1]]
            \o <<".">>
            \o [k \in 1..(Len(v.digits) - v.point) |->
                    DigitChars[v.digits[v.point + k] + 1]]

Layouts == {"compact", "spaced", "lines"}

LayoutOpen(layout) == IF layout = "lines" THEN <<"{", NL, " ", " ">> ELSE <<"{">>

LayoutClose(layout) == IF layout = "lines" THEN <<NL, "}">> ELSE <<"}">>

LayoutComma(layout) ==
    CASE layout = "compact" -> <<",">>
      [] layout = "spaced" -> <<",", " ">>
      [] layout = "lines" -> <<",", NL, " ", " ">>

LayoutColon(layout) == IF layout = "compact" THEN <<":">> ELSE <<":", " ">>

RECURSIVE DumpMembers(_, _, _)
DumpMembers(pairs, k, layout) ==
    IF k > Len(pairs) THEN <<>>
    ELSE (IF k > 1 THEN LayoutComma(layout) ELSE <<>>)
         \o <<QUOTE>> \o pairs[k][1] \o <<QUOTE>>
         \o LayoutColon(layout)
         \o DumpValue(pairs[k][2])
         \o DumpMembers(pairs, k + 1, layout)

\* a JSON object written out, its members in the order of pairs
DumpObject(pairs, layout) ==
    LayoutOpen(layout) \o DumpMembers(pairs, 1, layout) \o LayoutClose(layout)

\* the dict with these members
PairsToObj(pairs) ==
    JObj([key \in {pairs[k][1] : k \in DOMAIN pairs} |->
            (CHOOSE v \in {pairs[k][2] : k \in DOMAIN pairs} :
                \E k \in DOMAIN pairs : pairs[k] = <<key, v>>)])

ScoreValues ==
    {JInt(-5), JInt(0), JInt(7), JInt(10), JInt(15), JInt(999), JStr(S_7),
     JStr(S_abc), JNull, JFloat(FALSE, <<7, 9>>, 1)}

ConfidenceValues ==
    {JInt(-10), JInt(0), JInt(85), JInt(100), JInt(101), JInt(999),
     JStr(S_abc), JFloat(TRUE, <<0, 5>>, 1), JBool(TRUE)}

\* the five text fields: all there, none there, or there with other values
TextFields(rest) ==
    CASE rest = "all" ->
            [verdict |-> JStr(S_FAKE), analysis |-> JStr(S_braces),
             red_flags |-> JStr(S_x), credibility_factors |-> JStr(S_7),
             verification_tips |-> JStr(S_abc)]
      [] rest = "other" ->
            [verdict |-> JStr(S_CREDIBLE), analysis |-> JNull,
             red_flags |-> Absent, credibility_factors |-> JInt(1),
             verification_tips |-> JStr(<<>>)]
      [] rest = "none" ->
            [verdict |-> Absent, analysis |-> Absent, red_flags |-> Absent,
             credibility_factors |-> Absent, verification_tips |-> Absent]

AnswerPairs(score, confidence, rest) ==
    LET f == TextFields(rest)
        IsThere(p) == p[2] # Absent
    IN  SelectSeq(<< <<K_credibility_score, score>>,
                     <<K_verdict, f.verdict>>,
                     <<K_confidence, confidence>>,
                     <<K_analysis, f.analysis>>,
                     <<K_red_flags, f.red_flags>>,
                     <<K_credibility_factors, f.credibility_factors>>,
                     <<K_verification_tips, f.verification_tips>> >>,
                  IsThere)

Rests == {"all", "other", "none"}

\* the objects the model answers: each value of one number field beside a usual
\* value of the other, and some with both unusual
AnswerObjects ==
    {AnswerPairs(score, JInt(85), rest) :
        score \in ScoreValues \cup {Absent}, rest \in Rests}
    \cup {AnswerPairs(JInt(7), confidence, rest) :
             confidence \in ConfidenceValues \cup {Absent}, rest \in Rests}
    \cup {AnswerPairs(JInt(15), JInt(-10), "all"),
          AnswerPairs(JInt(-5), JInt(999), "other"),
          AnswerPairs(JStr(S_abc), JStr(S_abc), "all"),
          AnswerPairs(JNull, Absent, "none"),
          AnswerPairs(Absent, Absent, "none")}

\* the objects of the seven-field schema of the prompt (lines 52-60)
SchemaObjects ==
    {AnswerPairs(score, confidence, "all") :
        score \in {v \in ScoreValues : v.t = "int"},
        confidence \in {v \in ConfidenceValues : v.t = "int"}}

\* what stands before and after the object in the answer
PlainWrappers == {<< <<>>, <<>> >>, <<T_HereYouGo, T_thanks>>}

BraceWrappers == {<<T_leadingBrace, <<>> >>, << <<>>, T_trailingBrace>>}

Paddings == {<< <<>>, <<>> >>, << <<" ">>, <<NL>> >>, << <<NL, " ">>, <<>> >>}

ObjectAnswers(objects, layouts, wrappers) ==
    {w[1] \o DumpObject(pairs, layout) \o w[2] :
        pairs \in objects, layout \in layouts, w \in wrappers}

ProseAnswers == {T_prose, T_proseBrace, <<" ", NL>>, <<" ">> \o T_prose \o <<NL>>}

AnswerChars == {"{", "}", QUOTE, "1", "a", " ", "[", "]"}

\* every text of at most n characters of AnswerChars
RECURSIVE CharTexts(_)
CharTexts(n) ==
    IF n = 0 THEN {<<>>}
    ELSE LET shorter == CharTexts(n - 1)
         IN  shorter \cup {Append(t, c) : t \in {u \in shorter : Len(u) = n - 1},
                                          c \in AnswerChars}

MaxRawLen == 4

MaxAnswerLen == 1

\* the texts the extractor is applied to
RawTexts ==
    CharTexts(MaxRawLen) \cup ProseAnswers
    \cup ObjectAnswers(AnswerObjects, Layouts, PlainWrappers \cup BraceWrappers)
    \cup ObjectAnswers(SchemaObjects, Layouts, Paddings)

\* what model.generate_content(prompt) does: it raises, it answers nothing,
\* or it answers a text (response.text), which may be empty
ModelOutcomes ==
    {[kind |-> "raises", text |-> <<>>], [kind |-> "no_response", text |-> <<>>]}
    \cup {[kind |-> "text", text |-> t] :
             t \in CharTexts(MaxAnswerLen) \cup ProseAnswers
                   \cup ObjectAnswers(AnswerObjects, {"lines"}, PlainWrappers)
                   \cup ObjectAnswers({AnswerPairs(JInt(7), JInt(85), "all")},
                                      {"spaced"}, BraceWrappers)}

(***************************************************************************)
(* The state: one request going through analyze_authenticity, and, for the *)
(* specifications that apply one function alone, its argument and result.  *)
(***************************************************************************)
VARIABLES
    pc,               \* the place of the handler in its code
    request,          \* the request: its content type and its body
    data,             \* request.get_json()
    article_text,     \* data.get('text', '').strip()
    prompt,           \* the prompt built from article_text
    response,         \* what model.generate_content(prompt) did
    analysis_result,  \* extract_json_from_response(response.text)
    sent,             \* the responses sent, in order
    modelCalls,       \* how often model.generate_content was called
    extractCalls,     \* how often extract_json_from_response was called
    normalizeCalls,   \* how often lines 155-163 ran
    arg,              \* the argument of the function applied alone
    ret               \* its result

handlerVars ==
    <<pc, request, data, article_text, prompt, response, analysis_result,
      sent, modelCalls, extractCalls, normalizeCalls>>

vars == <<handlerVars, arg, ret>>

MsgContentType == "Content-Type must be application/json"

MsgNoJson == "No JSON data provided"

MsgUnavailable ==
    "AI analysis service is temporarily unavailable. Please try again later."

MsgParseFailed == "Failed to parse analysis results. Please try again."

MsgUnexpected == "An unexpected error occurred. Please try again."

StatusOk == 200

StatusBadRequest == 400

StatusUnavailable == 503

StatusServerError == 500

\* jsonify({"error": message}), status
ErrorResponse(status, message) == [status |-> status, body |-> [error |-> message]]

\* jsonify(result)
ResultResponse(result) == [status |-> StatusOk, body |-> result]

NoCall == [t |-> "none"]

NoResponse == [kind |-> "not_called", text |-> <<>>]

NoPrompt == [template |-> "", article_text |-> <<>>]

HandlerStart(req) ==
    /\ pc = "check_content_type"
    /\ request = req
    /\ data = JNull
    /\ article_text = <<>>
    /\ prompt = NoPrompt
    /\ response = NoResponse
    /\ analysis_result = JNull
    /\ sent = <<>>
    /\ modelCalls = 0
    /\ extractCalls = 0
    /\ normalizeCalls = 0

Init ==
    /\ \E req \in Requests : HandlerStart(req)
    /\ arg = NoCall
    /\ ret = NoCall

\* return jsonify(...), status: the response is sent and the handler is left
Return(r) ==
    /\ sent' = Append(sent, r)
    /\ pc' = "done"

\* the handler without its outer except: the exception leaves the handler and
\* nothing is sent
RaiseUnexpected_Escaping ==
    /\ pc' = "crashed"
    /\ UNCHANGED sent

\* lines 172-174: the outer except Exception
RaiseUnexpected == Return(ErrorResponse(StatusServerError, MsgUnexpected))

\* lines 118-119
CheckContentType ==
    /\ pc = "check_content_type"
    /\ IF ~request.is_json
       THEN /\ Return(ErrorResponse(StatusBadRequest, MsgContentType))
       ELSE /\ pc' = "get_json"
            /\ UNCHANGED sent
    /\ UNCHANGED <<request, data, article_text, prompt, response,
                   analysis_result, modelCalls, extractCalls, normalizeCalls,
                   arg, ret>>

\* lines 121-123: get_json raises BadRequest on a body that is no JSON, and the
\* outer except answers it
GetJson ==
    /\ pc = "get_json"
    /\ IF request.body = BInvalid
       THEN /\ RaiseUnexpected
            /\ UNCHANGED data
       ELSE /\ data' = request.body
            /\ IF ~Truthy(request.body)
               THEN /\ Return(ErrorResponse(StatusBadRequest, MsgNoJson))
               ELSE /\ pc' = "read_text"
                    /\ UNCHANGED sent
    /\ UNCHANGED <<request, article_text, prompt, response,
                   analysis_result, modelCalls, extractCalls, normalizeCalls,
                   arg, ret>>

\* line 125: data.get raises AttributeError when data is no dict, and .strip()
\* when the text field is no string
ReadText ==
    /\ pc = "read_text"
    /\ LET text == DictGet(data, K_text, RStr(<<>>))
       IN  IF ~IsDict(data)
           THEN RaiseUnexpected /\ UNCHANGED article_text
           ELSE IF ~IsStr(text)
           THEN RaiseUnexpected /\ UNCHANGED article_text
           ELSE /\ article_text' = StripRuns(text.runs)
                /\ pc' = "validate"
                /\ UNCHANGED sent
    /\ UNCHANGED <<request, data, prompt, response, analysis_result,
                   modelCalls, extractCalls, normalizeCalls, arg, ret>>

\* Validate with the verdict of the validator not looked at
Validate_IgnoringResult ==
    /\ pc = "validate"
    /\ pc' = "create_prompt"
    /\ UNCHANGED <<request, data, article_text, prompt, response,
                   analysis_result, sent, modelCalls, extractCalls,
                   normalizeCalls, arg, ret>>

\* lines 128-130
Validate ==
    /\ pc = "validate"
    /\ LET v == validate_article_text(article_text)
       IN  IF ~v.ok
           THEN /\ Return(ErrorResponse(StatusBadRequest, v.message))
           ELSE /\ pc' = "create_prompt"
                /\ UNCHANGED sent
    /\ UNCHANGED <<request, data, article_text, prompt, response,
                   analysis_result, modelCalls, extractCalls, normalizeCalls,
                   arg, ret>>

\* line 135
CreatePrompt ==
    /\ pc = "create_prompt"
    /\ prompt' = create_fake_news_analysis_prompt(article_text)
    /\ pc' = "call_model"
    /\ UNCHANGED <<request, data, article_text, response, analysis_result,
                   sent, modelCalls, extractCalls, normalizeCalls,
                   arg, ret>>

\* CallModel with one more try after a call that failed
CallModel_Retrying ==
    /\ pc = "call_model"
    /\ \E outcome \in ModelOutcomes :
          /\ modelCalls' = modelCalls + 1
          /\ response' = outcome
          /\ IF outcome.kind # "text" \/ outcome.text = <<>>
             THEN IF modelCalls = 0
                  THEN pc' = "call_model" /\ UNCHANGED sent
                  ELSE Return(ErrorResponse(StatusUnavailable, MsgUnavailable))
             ELSE /\ pc' = "extract"
                  /\ UNCHANGED sent
    /\ UNCHANGED <<request, data, article_text, prompt, analysis_result,
                   extractCalls, normalizeCalls, arg, ret>>

\* lines 138-150: one call; whatever it raises, and an answer without text,
\* is answered 503
CallModel ==
    /\ pc = "call_model"
    /\ \E outcome \in ModelOutcomes :
          /\ modelCalls' = modelCalls + 1
          /\ response' = outcome
          /\ IF outcome.kind # "text" \/ outcome.text = <<>>
             THEN Return(ErrorResponse(StatusUnavailable, MsgUnavailable))
             ELSE /\ pc' = "extract"
                  /\ UNCHANGED sent
    /\ UNCHANGED <<request, data, article_text, prompt, analysis_result,
                   extractCalls, normalizeCalls, arg, ret>>

\* ExtractAndNormalize without its inner except: what the normalisation raises
\* reaches the outer except
ExtractAndNormalize_Uncaught ==
    /\ pc = "extract"
    /\ extractCalls' = extractCalls + 1
    /\ normalizeCalls' = normalizeCalls + 1
    /\ analysis_result' = extract_json_from_response(response.text)
    /\ LET n == NormalizeResult(analysis_result')
       IN  IF n.raised
           THEN RaiseUnexpected
           ELSE Return(ResultResponse(n.result))
    /\ UNCHANGED <<request, data, article_text, prompt, response,
                   modelCalls, arg, ret>>

\* lines 153-170: the extraction, the normalisation and the answer; whatever
\* they raise is answered by the inner except
ExtractAndNormalize ==
    /\ pc = "extract"
    /\ extractCalls' = extractCalls + 1
    /\ normalizeCalls' = normalizeCalls + 1
    /\ analysis_result' = extract_json_from_response(response.text)
    /\ LET n == NormalizeResult(analysis_result')
       IN  IF n.raised
           THEN Return(ErrorResponse(StatusServerError, MsgParseFailed))
           ELSE Return(ResultResponse(n.result))
    /\ UNCHANGED <<request, data, article_text, prompt, response,
                   modelCalls, arg, ret>>

Next ==
    \/ CheckContentType
    \/ GetJson
    \/ ReadText
    \/ Validate
    \/ CreatePrompt
    \/ CallModel
    \/ ExtractAndNormalize

Spec == Init /\ [][Next]_vars

(***************************************************************************)
(* validate_article_text applied alone to a text.                          *)
(***************************************************************************)
HandlerIdle ==
    /\ pc = "idle"
    /\ request = [is_json |-> FALSE, body |-> BInvalid]
    /\ data = JNull
    /\ article_text = <<>>
    /\ prompt = NoPrompt
    /\ response = NoResponse
    /\ analysis_result = JNull
    /\ sent = <<>>
    /\ modelCalls = 0
    /\ extractCalls = 0
    /\ normalizeCalls = 0

ValidatorInit ==
    /\ HandlerIdle
    /\ \E text \in ArticleTexts(RunLens, MaxRuns) :
          arg = [t |-> "validate_article_text", text |-> text]
    /\ ret = NoCall

ApplyValidator ==
    /\ arg.t = "validate_article_text"
    /\ ret = NoCall
    /\ ret' = [t |-> "returned", value |-> validate_article_text(arg.text)]
    /\ UNCHANGED <<handlerVars, arg>>

ValidatorNext == ApplyValidator

ValidatorSpec == ValidatorInit /\ [][ValidatorNext]_vars

(***************************************************************************)
(* extract_json_from_response applied alone to a text.                     *)
(***************************************************************************)
ExtractorInit ==
    /\ HandlerIdle
    /\ \E text \in RawTexts :
          arg = [t |-> "extract_json_from_response", text |-> text]
    /\ ret = NoCall

ApplyExtractor ==
    /\ arg.t = "extract_json_from_response"
    /\ ret = NoCall
    /\ ret' = [t |-> "returned", value |-> extract_json_from_response(arg.text)]
    /\ UNCHANGED <<handlerVars, arg>>

ExtractorNext == ApplyExtractor

ExtractorSpec == ExtractorInit /\ [][ExtractorNext]_vars

(***************************************************************************)
(* The properties.                                                         *)
(***************************************************************************)

\* the length of a text without the whitespace at its two ends: in a text of
\* alternating runs only the first and the last run can be that whitespace
TrimmedLen(text) ==
    LET n == Len(text)
        lead == IF n >= 1 /\ text[1].ws THEN text[1].n ELSE 0
        trail == IF n >= 2 /\ text[n].ws THEN text[n].n ELSE 0
    IN  TextLen(text) - lead - trail

\* the text field of the body of the request, '' when there is none
BodyText == DictGet(request.body, K_text, RStr(<<>>))

PassesContentType == request.is_json

PassesBody == request.body # BInvalid /\ Truthy(request.body)

PassesValidation ==
    /\ IsDict(request.body)
    /\ IsStr(BodyText)
    /\ TrimmedLen(BodyText.runs) >= 10
    /\ TrimmedLen(BodyText.runs) <= 50000

\* the request fails one of the three checks of the handler
FailsACheck ==
    \/ ~request.is_json
    \/ request.is_json /\ request.body # BInvalid /\ ~Truthy(request.body)
    \/ /\ request.is_json
       /\ IsDict(request.body)
       /\ Truthy(request.body)
       /\ IsStr(BodyText)
       /\ ~PassesValidation

\* C1: the model is called only for a request that passed the content-type
\* check, the empty-body check and the validation of its text; a request that
\* fails one of them is answered 400 with no call of the model.
C1_ModelCalledOnlyAfterChecks ==
    /\ modelCalls > 0 => PassesContentType /\ PassesBody /\ PassesValidation
    /\ pc \in {"create_prompt", "call_model", "extract"}
          => PassesContentType /\ PassesBody /\ PassesValidation
    /\ (pc = "done" /\ FailsACheck)
          => /\ modelCalls = 0
             /\ Len(sent) = 1
             /\ sent[1].status = 400

\* a text that is too short was answered 400 and the model was not called
C1_Witness ==
    /\ pc = "done"
    /\ request.is_json
    /\ IsDict(request.body)
    /\ IsStr(BodyText)
    /\ TrimmedLen(BodyText.runs) = 9
    /\ sent = <<[status |-> 400,
                 body |-> [error |-> "Article text is too short for meaningful analysis"]]>>
    /\ modelCalls = 0

\* C2: validate_article_text answers ok with an empty message exactly when
\* the trimmed length of the text is in 10..50000, and otherwise not ok with the
\* message of the case: empty, too short (1..9) or too long (above 50000).
C2_ValidatorByTrimmedLength ==
    ret.t = "returned" =>
        LET n == TrimmedLen(arg.text)
            v == ret.value
        IN  /\ v.ok <=> (n >= 10 /\ n <= 50000)
            /\ v.ok => v.message = ""
            /\ n = 0 => v.message = "Article text cannot be empty"
            /\ (n >= 1 /\ n <= 9)
                  => v.message = "Article text is too short for meaningful analysis"
            /\ n > 50000
                  => v.message = "Article text is too long (maximum 50,000 characters)"

\* a text of 50,000 characters between whitespace was accepted
C2_Witness ==
    /\ ret.t = "returned"
    /\ Len(arg.text) = 3
    /\ arg.text[1].ws
    /\ TrimmedLen(arg.text) = 50000
    /\ ret.value = [ok |-> TRUE, message |-> ""]

\* C3: a request of JSON content type with a non-empty JSON object as its
\* body, whose text field does not pass the validation, is answered 400 with
\* the message of the validator, and with no other status.
C3_InvalidTextAnswered400 ==
    (/\ pc = "done"
     /\ request.is_json
     /\ IsDict(request.body)
     /\ Truthy(request.body)
     /\ ~PassesValidation)
        => /\ Len(sent) = 1
           /\ sent[1].status = 400
           /\ DOMAIN sent[1].body = {"error"}
           /\ sent[1].body.error \in
                 {"Article text cannot be empty",
                  "Article text is too short for meaningful analysis",
                  "Article text is too long (maximum 50,000 characters)"}

\* a response of this status whose body is the one field error
Failure(status, message) == [status |-> status, body |-> [error |-> message]]

TextUnavailable ==
    "AI analysis service is temporarily unavailable. Please try again later."

\* the call of the model failed: it raised, or answered no text
ModelFailed ==
    \/ response.kind \in {"raises", "no_response"}
    \/ response.kind = "text" /\ response.text = <<>>

\* C4: when the call of the model raises or answers no text, the request is
\* answered 503 with the fixed message, the model was called exactly once, and
\* neither the extraction nor the normalisation ran.
C4_ModelFailureAnswered503 ==
    /\ modelCalls <= 1
    /\ ModelFailed
          => /\ pc = "done"
             /\ sent = <<Failure(503, TextUnavailable)>>
             /\ modelCalls = 1
             /\ extractCalls = 0
             /\ normalizeCalls = 0

\* the model raised for a valid request, which was answered 503
C4_Witness ==
    /\ pc = "done"
    /\ PassesValidation
    /\ response.kind = "raises"
    /\ modelCalls = 1
    /\ Len(sent) = 1
    /\ sent[1].status = 503

ClampTo(low, high, i) == IF i < low THEN low ELSE IF i > high THEN high ELSE i

\* C5: a 200 response has credibility_score in 0..10 and confidence in
\* 0..100: an integer v of the extracted record is answered as
\* min(10, max(0, v)), resp. min(100, max(0, v)), a float or a string of digits
\* as its integer, and a field that is absent as 0, resp. 50.
C5_ScoreAndConfidenceClamped ==
    (pc = "done" /\ Len(sent) = 1 /\ sent[1].status = 200) =>
        /\ IsDict(analysis_result)
        /\ LET body == sent[1].body
               o == analysis_result.o
               hasScore == K_credibility_score \in DOMAIN o
               hasConfidence == K_confidence \in DOMAIN o
           IN  /\ body.credibility_score \in 0..10
               /\ body.confidence \in 0..100
               /\ ~hasScore => body.credibility_score = 0
               /\ ~hasConfidence => body.confidence = 50
               /\ (hasScore /\ o[K_credibility_score].t = "int")
                     => body.credibility_score
                            = ClampTo(0, 10, o[K_credibility_score].i)
               /\ (hasConfidence /\ o[K_confidence].t = "int")
                     => body.confidence = ClampTo(0, 100, o[K_confidence].i)
               /\ (hasScore /\ o[K_credibility_score] \in
                                   {JFloat(FALSE, <<7, 9>>, 1), JStr(S_7)})
                     => body.credibility_score = 7
               /\ (hasConfidence /\ o[K_confidence] = JFloat(TRUE, <<0, 5>>, 1))
                     => body.confidence = 0
               /\ (hasConfidence /\ o[K_confidence] = JBool(TRUE))
                     => body.confidence = 1

\* the answer "Here you go: {... 15 ... -10 ...} thanks" was answered 200 with
\* the score 10 and the confidence 0
C5_Witness ==
    /\ pc = "done"
    /\ Len(sent) = 1
    /\ sent[1].status = 200
    /\ Matches(response.text, 1, T_HereYouGo)
    /\ IsDict(analysis_result)
    /\ K_credibility_score \in DOMAIN analysis_result.o
    /\ K_confidence \in DOMAIN analysis_result.o
    /\ analysis_result.o[K_credibility_score] = JInt(15)
    /\ analysis_result.o[K_confidence] = JInt(-10)
    /\ sent[1].body.credibility_score = 10
    /\ sent[1].body.confidence = 0
    /\ sent[1].body.verdict = JStr(S_FAKE)

HasNoDigit(s) == \A k \in 1..Len(s) : ~IsDigit(s[k])

\* int(v) raises: v is None, a list, a dict, nan or an infinity, or a string
\* without a digit
CannotBeInt(v) ==
    \/ v.t \in {"null", "arr", "obj", "nonfinite"}
    \/ v.t = "str" /\ HasNoDigit(v.s)

\* the extraction or the normalisation failed
ParseFailure ==
    \/ ~IsDict(analysis_result)
    \/ /\ IsDict(analysis_result)
       /\ \E key \in {K_credibility_score, K_confidence} :
             /\ key \in DOMAIN analysis_result.o
             /\ CannotBeInt(analysis_result.o[key])

\* C6: once the model has answered a text, a failure of the extraction or of
\* the normalisation (a score or a confidence that is no integer) is answered
\* 500 "Failed to parse analysis results. Please try again.", never with the
\* message of the catch-all and never 200.
C6_ParseFailureAnswered500 ==
    (pc = "done" /\ extractCalls > 0) =>
        /\ Len(sent) = 1
        /\ sent[1].status \in {200, 500}
        /\ sent[1].status = 500
              => sent[1].body
                    = [error |-> "Failed to parse analysis results. Please try again."]
        /\ ParseFailure => sent[1].status = 500

\* a score "abc" was answered 500 with the message of the parse failure
C6_Witness ==
    /\ pc = "done"
    /\ IsDict(analysis_result)
    /\ K_credibility_score \in DOMAIN analysis_result.o
    /\ analysis_result.o[K_credibility_score] = JStr(S_abc)
    /\ sent = <<[status |-> 500,
                 body |-> [error |->
                              "Failed to parse analysis results. Please try again."]]>>

\* the messages of each status
MessagesOf(status) ==
    CASE status = 400 -> {"Content-Type must be application/json",
                          "No JSON data provided",
                          "Article text cannot be empty",
                          "Article text is too short for meaningful analysis",
                          "Article text is too long (maximum 50,000 characters)"}
      [] status = 503 -> {TextUnavailable}
      [] status = 500 -> {"Failed to parse analysis results. Please try again.",
                          "An unexpected error occurred. Please try again."}
      [] OTHER -> {}

\* C7: the handler is at a step of its code with nothing sent yet, or has
\* left it with exactly one response, of status 200, 400, 503 or 500; the body
\* of a response that is not 200 is the one field error with one of the fixed
\* messages; no exception leaves the handler without a response.
C7_OneResponseWithErrorField ==
    /\ pc \in {"check_content_type", "get_json", "read_text", "validate",
               "create_prompt", "call_model", "extract", "done"}
    /\ Len(sent) = IF pc = "done" THEN 1 ELSE 0
    /\ \A k \in DOMAIN sent :
          /\ sent[k].status \in {200, 400, 503, 500}
          /\ sent[k].status # 200
                => /\ DOMAIN sent[k].body = {"error"}
                   /\ sent[k].body.error \in MessagesOf(sent[k].status)
          /\ sent[k].status = 200
                => DOMAIN sent[k].body
                      = {"credibility_score", "verdict", "confidence", "analysis",
                         "red_flags", "credibility_factors", "verification_tips"}

\* a body with a text field that is no string made the handler raise, and the
\* catch-all answered it
C7_Witness ==
    /\ pc = "done"
    /\ request.is_json
    /\ IsDict(request.body)
    /\ ~IsStr(BodyText)
    /\ sent = <<[status |-> 500,
                 body |-> [error |-> "An unexpected error occurred. Please try again."]]>>

\* C8: extract_json_from_response answers a record for every text.
C8_ExtractorYieldsRecord == ret.t = "returned" => IsDict(ret.value)

HasBrace(s) == \E k \in 1..Len(s) : s[k] \in {"{", "}"}

\* the part of s from its first "{" to its last "}", empty when there is none
BraceSpan(s) ==
    LET opens == {k \in 1..Len(s) : s[k] = "{"}
        closes == {k \in 1..Len(s) : s[k] = "}"}
        first == CHOOSE i \in opens : \A j \in opens : i <= j
        last == CHOOSE i \in closes : \A j \in closes : j <= i
    IN  IF opens # {} /\ closes # {} /\ first < last
        THEN SubSeq(s, first, last)
        ELSE <<>>

\* the analysis of the fallback record
FallbackAnalysis(s) == IF Strip(s) = <<>> THEN S_UnableToAnalyze ELSE Strip(s)

\* C9: when the trimmed text does not parse, the extractor answers the
\* parse of the part from the first "{" to the last "}" if that parses, and
\* otherwise the fallback record (score 0, verdict UNKNOWN, confidence 50, the
\* trimmed text or the fixed text as analysis, the three fixed texts); so prose
\* without braces is normalised to score 0, verdict UNKNOWN and that analysis.
C9_SpanThenFallback ==
    (ret.t = "returned" /\ ~JsonLoads(Strip(arg.text)).ok) =>
        LET parsed == JsonLoads(BraceSpan(arg.text))
            n == NormalizeResult(ret.value)
        IN  /\ parsed.ok => ret.value = parsed.v
            /\ ~parsed.ok
                  => /\ IsDict(ret.value)
                     /\ DOMAIN ret.value.o
                           = {K_credibility_score, K_verdict, K_confidence,
                              K_analysis, K_red_flags, K_credibility_factors,
                              K_verification_tips}
                     /\ ret.value.o[K_credibility_score] = JInt(0)
                     /\ ret.value.o[K_verdict] = JStr(S_UNKNOWN)
                     /\ ret.value.o[K_confidence] = JInt(50)
                     /\ ret.value.o[K_analysis] = JStr(FallbackAnalysis(arg.text))
                     /\ ret.value.o[K_red_flags] = JStr(S_ParsingFailed)
                     /\ ret.value.o[K_credibility_factors] = JStr(S_UnableToAssess)
                     /\ ret.value.o[K_verification_tips] = JStr(S_TryDifferent)
            /\ ~HasBrace(arg.text)
                  => /\ ~n.raised
                     /\ n.result.credibility_score = 0
                     /\ n.result.verdict = JStr(S_UNKNOWN)
                     /\ n.result.analysis = JStr(FallbackAnalysis(arg.text))

\* "Here you go: {...} thanks", with braces inside a string of the object, was
\* answered as the object
C9_Witness ==
    /\ ret.t = "returned"
    /\ Matches(arg.text, 1, T_HereYouGo)
    /\ ~JsonLoads(Strip(arg.text)).ok
    /\ IsDict(ret.value)
    /\ K_analysis \in DOMAIN ret.value.o
    /\ ret.value.o[K_analysis] = JStr(S_braces)
    /\ K_red_flags \in DOMAIN ret.value.o
    /\ ret.value.o[K_red_flags] = JStr(S_x)

\* the objects of the schema written out, with whitespace around them or not
SchemaTexts ==
    {[text |-> p[1] \o DumpObject(pairs, layout) \o p[2],
      object |-> PairsToObj(pairs)] :
        pairs \in SchemaObjects, layout \in Layouts, p \in Paddings}

\* C10: for a text that is an object of the seven-field schema written out,
\* with whitespace around it or not, the extractor answers exactly the fields
\* and values of that object: nothing added, dropped, clamped or defaulted.
C10_SchemaObjectRoundTrip ==
    ret.t = "returned" =>
        \A s \in SchemaTexts : arg.text = s.text => ret.value = s.object

\* an object with the score 15, written on several lines after whitespace, was
\* answered with its seven fields and the score 15
C10_Witness ==
    /\ ret.t = "returned"
    /\ \E s \in SchemaTexts : arg.text = s.text
    /\ arg.text[1] = NL
    /\ \E k \in 3..Len(arg.text) : arg.text[k] = NL
    /\ IsDict(ret.value)
    /\ Cardinality(DOMAIN ret.value.o) = 7
    /\ ret.value.o[K_credibility_score] = JInt(15)
    /\ ret.value.o[K_confidence] = JInt(-10)

=====
